---- MODULE Spec2Model ----
(***************************************************************************)
(* The abridged MTProto transport of grammers-mtproto                      *)
(* (src/lib/grammers-mtproto/src/transport/abridged.rs): the Abridged      *)
(* struct with its single flag `init`, and the three Transport operations  *)
(* pack, unpack and reset, driven by a caller that owns the two output     *)
(* sinks.                                                                  *)
(*                                                                         *)
(* Byte buffers (&[u8], RingBuffer<u8>, BytesMut) are kept run-length      *)
(* encoded: a buffer is a sequence of runs <<b, n>> (n >= 1 copies of the  *)
(* byte b), adjacent runs holding different bytes.  Every buffer has       *)
(* exactly one such encoding, so equality of encodings is equality of      *)
(* buffers, and a payload of 2^24 words is as cheap as one of 4 bytes.     *)
(***************************************************************************)
EXTENDS Integers, Sequences, FiniteSets, TLC

VARIABLES
    init,       \* Abridged.init
    packed,     \* the RingBuffer<u8> the caller hands to pack
    unpacked,   \* the BytesMut the caller hands to unpack
    op,         \* the last call made on the transport
    arg,        \* its input slice
    ret,        \* its return value
    prev,       \* init, packed and unpacked as they were when it was made
    log,        \* the completed pack and reset calls, in order
    unpacks,    \* how many unpack calls have returned Ok
    received,   \* reader: how many bytes of the stream have arrived
    cursor,     \* reader: read cursor into the stream
    recovered   \* reader: the payloads decoded so far, in order

vars == <<init, packed, unpacked, op, arg, ret, prev, log, unpacks,
          received, cursor, recovered>>

-----------------------------------------------------------------------------
(* Bounds of the model. *)

MaxPacks == 2       \* completed pack calls
MaxResets == 1      \* reset calls
MaxUnpacks == 1     \* unpack calls that return Ok

-----------------------------------------------------------------------------
(* Byte buffers. *)

\* n copies of the byte b.
Run(b, n) == IF n = 0 THEN <<>> ELSE << <<b, n>> >>

\* The buffer holding the bytes of the sequence s.
RECURSIVE FromSeq(_)
FromSeq(s) ==
    IF s = <<>> THEN <<>>
    ELSE LET r == FromSeq(Tail(s))
         IN  IF r # <<>> /\ r[1][1] = s[1]
             THEN << <<s[1], r[1][2] + 1>> >> \o Tail(r)
             ELSE << <<s[1], 1>> >> \o r

\* a.len(), for buffers shorter than 2^31 bytes.
RECURSIVE BLen(_)
BLen(a) == IF a = <<>> THEN 0 ELSE a[1][2] + BLen(Tail(a))

\* a followed by b (extend / put).
Cat(a, b) ==
    IF a = <<>> THEN b
    ELSE IF b = <<>> THEN a
    ELSE IF a[Len(a)][1] = b[1][1]
         THEN SubSeq(a, 1, Len(a) - 1)
                  \o << <<b[1][1], a[Len(a)][2] + b[1][2]>> >> \o Tail(b)
         ELSE a \o b

\* a with the byte b appended (push).
Push(a, b) == Cat(a, Run(b, 1))

\* &a[n..], n <= a.len().
RECURSIVE Drop(_, _)
Drop(a, n) ==
    IF n = 0 \/ a = <<>> THEN a
    ELSE IF a[1][2] <= n THEN Drop(Tail(a), n - a[1][2])
    ELSE << <<a[1][1], a[1][2] - n>> >> \o Tail(a)

\* &a[..n], n <= a.len().
RECURSIVE Take(_, _)
Take(a, n) ==
    IF n = 0 \/ a = <<>> THEN <<>>
    ELSE IF a[1][2] <= n THEN <<a[1]>> \o Take(Tail(a), n - a[1][2])
    ELSE << <<a[1][1], n>> >>

\* &a[from..to], from <= to <= a.len().
Slice(a, from, to) == Take(Drop(a, from), to - from)

\* a[i], i < a.len().
At(a, i) == Drop(a, i)[1][1]

\* a.len() as a 64-bit usize, held as <<hi, lo>> = hi * 2^16 + lo so that
\* windows of 2^31 bytes and more have a length.
RECURSIVE Len64(_)
Len64(a) ==
    IF a = <<>> THEN <<0, 0>>
    ELSE LET r == Len64(Tail(a))
             lo == r[2] + (a[1][2] % 65536)
         IN  <<r[1] + (a[1][2] \div 65536) + (lo \div 65536), lo % 65536>>

\* l < k, for a usize l and a k below 2^31.
Less64(l, k) ==
    \/ l[1] < k \div 65536
    \/ l[1] = k \div 65536 /\ l[2] < k % 65536

\* `x as i32` of a usize: the low 32 bits, read as two's complement.
AsI32(l) ==
    LET h == l[1] % 65536
    IN  IF h >= 32768 THEN (h - 65536) * 65536 + l[2] ELSE h * 65536 + l[2]

-----------------------------------------------------------------------------
(* impl Abridged / impl Transport for Abridged *)

\* Abridged::new
new == FALSE

\* Result<usize, Error>
Ok(n) == [tag |-> "Ok", val |-> n]
MissingBytes == [tag |-> "Err", val |-> "MissingBytes"]
\* a panic unwinding out of the call (failed assertion, slice out of range)
Panic == [tag |-> "Panic", val |-> "panic"]
\* the unit return of pack and reset
Unit == [tag |-> "Unit", val |-> "()"]

\* The three bytes most significant first.
LeBytes3_big_endian(len) ==
    FromSeq(<<(len \div 65536) % 256, (len \div 256) % 256, len % 256>>)

\* (len as u32).to_le_bytes()[..3]
LeBytes3(len) ==
    FromSeq(<<len % 256, (len \div 256) % 256, (len \div 65536) % 256>>)

\* pack that never records that the marker went out.
pack_marker_every_call(self, input, output) ==
    IF BLen(input) % 4 # 0
    THEN [init |-> self, output |-> output, ret |-> Panic]
    ELSE LET marked == IF ~self THEN Push(output, 239) ELSE output
             len == BLen(input) \div 4
         IN  [init |-> self,
              output |-> IF len < 127
                         THEN Cat(Push(marked, len % 256), input)
                         ELSE Cat(Cat(Push(marked, 127), LeBytes3(len)), input),
              ret |-> Unit]

\* pack that checks the padding only after the marker went out.
pack_asserts_after_marker(self, input, output) ==
    IF BLen(input) % 4 # 0
    THEN [init |-> TRUE,
          output |-> IF ~self THEN Push(output, 239) ELSE output,
          ret |-> Panic]
    ELSE LET marked == IF ~self THEN Push(output, 239) ELSE output
             len == BLen(input) \div 4
         IN  [init |-> TRUE,
              output |-> IF len < 127
                         THEN Cat(Push(marked, len % 256), input)
                         ELSE Cat(Cat(Push(marked, 127), LeBytes3(len)), input),
              ret |-> Unit]

\* pack that refuses a word count the three length bytes cannot hold.
pack_guards_length(self, input, output) ==
    IF BLen(input) % 4 # 0 \/ BLen(input) \div 4 >= 16777216
    THEN [init |-> self, output |-> output, ret |-> Panic]
    ELSE LET marked == IF ~self THEN Push(output, 239) ELSE output
             len == BLen(input) \div 4
         IN  [init |-> TRUE,
              output |-> IF len < 127
                         THEN Cat(Push(marked, len % 256), input)
                         ELSE Cat(Cat(Push(marked, 127), LeBytes3(len)), input),
              ret |-> Unit]

\* Transport::pack: the value of self.init and of output after the call, and
\* whether the call returned or panicked.
pack(self, input, output) ==
    IF BLen(input) % 4 # 0
    THEN [init |-> self, output |-> output, ret |-> Panic]
    ELSE LET marked == IF ~self THEN Push(output, 239) ELSE output
             len == BLen(input) \div 4
         IN  [init |-> TRUE,
              output |-> IF len < 127
                         THEN Cat(Push(marked, len % 256), input)
                         ELSE Cat(Cat(Push(marked, 127), LeBytes3(len)), input),
              ret |-> Unit]

\* The three length bytes read most significant first.
FromLeBytes3_big_endian(input) ==
    65536 * At(input, 1) + 256 * At(input, 2) + At(input, 3)

\* The three length bytes read as a signed 24-bit number.
FromLeBytes3_sign_extended(input) ==
    LET v == At(input, 1) + 256 * At(input, 2) + 65536 * At(input, 3)
    IN  IF At(input, 3) >= 128 THEN v - 16777216 ELSE v

\* i32::from_le_bytes([input[1], input[2], input[3], 0])
FromLeBytes3(input) ==
    At(input, 1) + 256 * At(input, 2) + 65536 * At(input, 3)

\* unpack that forgets the header when it asks whether the envelope is in.
unpack_bound_without_header(self, input, output) ==
    IF input = <<>>
    THEN [init |-> self, output |-> output, ret |-> MissingBytes]
    ELSE LET b0 == At(input, 0)
             short == b0 < 127
         IN  IF ~short /\ Less64(Len64(input), 4)
             THEN [init |-> self, output |-> output, ret |-> MissingBytes]
             ELSE LET header_len == IF short THEN 1 ELSE 4
                      len == (IF short THEN b0 ELSE FromLeBytes3(input)) * 4
                  IN  IF AsI32(Len64(input)) < len
                      THEN [init |-> self, output |-> output,
                            ret |-> MissingBytes]
                      ELSE IF Less64(Len64(input), header_len + len)
                      THEN [init |-> self, output |-> output, ret |-> Panic]
                      ELSE [init |-> self,
                            output |-> Cat(output,
                                Slice(input, header_len, header_len + len)),
                            ret |-> Ok(header_len + len)]

\* unpack that hands over everything behind the header.
unpack_takes_the_rest(self, input, output) ==
    IF input = <<>>
    THEN [init |-> self, output |-> output, ret |-> MissingBytes]
    ELSE LET b0 == At(input, 0)
             short == b0 < 127
         IN  IF ~short /\ Less64(Len64(input), 4)
             THEN [init |-> self, output |-> output, ret |-> MissingBytes]
             ELSE LET header_len == IF short THEN 1 ELSE 4
                      len == (IF short THEN b0 ELSE FromLeBytes3(input)) * 4
                  IN  IF AsI32(Len64(input)) < header_len + len
                      THEN [init |-> self, output |-> output,
                            ret |-> MissingBytes]
                      ELSE IF Less64(Len64(input), header_len + len)
                      THEN [init |-> self, output |-> output, ret |-> Panic]
                      ELSE [init |-> self,
                            output |-> Cat(output,
                                Drop(input, header_len)),
                            ret |-> Ok(header_len + len)]

\* unpack that marks the transport initialized when it decodes.
unpack_sets_init(self, input, output) ==
    IF input = <<>>
    THEN [init |-> self, output |-> output, ret |-> MissingBytes]
    ELSE LET b0 == At(input, 0)
             short == b0 < 127
         IN  IF ~short /\ Less64(Len64(input), 4)
             THEN [init |-> self, output |-> output, ret |-> MissingBytes]
             ELSE LET header_len == IF short THEN 1 ELSE 4
                      len == (IF short THEN b0 ELSE FromLeBytes3(input)) * 4
                  IN  IF AsI32(Len64(input)) < header_len + len
                      THEN [init |-> self, output |-> output,
                            ret |-> MissingBytes]
                      ELSE IF Less64(Len64(input), header_len + len)
                      THEN [init |-> self, output |-> output, ret |-> Panic]
                      ELSE [init |-> TRUE,
                            output |-> Cat(output,
                                Slice(input, header_len, header_len + len)),
                            ret |-> Ok(header_len + len)]

\* unpack that takes the byte 127 for a short header.
unpack_short_up_to_127(self, input, output) ==
    IF input = <<>>
    THEN [init |-> self, output |-> output, ret |-> MissingBytes]
    ELSE LET b0 == At(input, 0)
             short == b0 <= 127
         IN  IF ~short /\ Less64(Len64(input), 4)
             THEN [init |-> self, output |-> output, ret |-> MissingBytes]
             ELSE LET header_len == IF short THEN 1 ELSE 4
                      len == (IF short THEN b0 ELSE FromLeBytes3(input)) * 4
                  IN  IF AsI32(Len64(input)) < header_len + len
                      THEN [init |-> self, output |-> output,
                            ret |-> MissingBytes]
                      ELSE IF Less64(Len64(input), header_len + len)
                      THEN [init |-> self, output |-> output, ret |-> Panic]
                      ELSE [init |-> self,
                            output |-> Cat(output,
                                Slice(input, header_len, header_len + len)),
                            ret |-> Ok(header_len + len)]

\* unpack that returns the payload length for the bytes consumed.
unpack_returns_payload_len(self, input, output) ==
    IF input = <<>>
    THEN [init |-> self, output |-> output, ret |-> MissingBytes]
    ELSE LET b0 == At(input, 0)
             short == b0 < 127
         IN  IF ~short /\ Less64(Len64(input), 4)
             THEN [init |-> self, output |-> output, ret |-> MissingBytes]
             ELSE LET header_len == IF short THEN 1 ELSE 4
                      len == (IF short THEN b0 ELSE FromLeBytes3(input)) * 4
                  IN  IF AsI32(Len64(input)) < header_len + len
                      THEN [init |-> self, output |-> output,
                            ret |-> MissingBytes]
                      ELSE IF Less64(Len64(input), header_len + len)
                      THEN [init |-> self, output |-> output, ret |-> Panic]
                      ELSE [init |-> self,
                            output |-> Cat(output,
                                Slice(input, header_len, header_len + len)),
                            ret |-> Ok(len)]

\* unpack that slices without asking whether the envelope is in.
unpack_without_bound_check(self, input, output) ==
    IF input = <<>>
    THEN [init |-> self, output |-> output, ret |-> MissingBytes]
    ELSE LET b0 == At(input, 0)
             short == b0 < 127
         IN  IF ~short /\ Less64(Len64(input), 4)
             THEN [init |-> self, output |-> output, ret |-> MissingBytes]
             ELSE LET header_len == IF short THEN 1 ELSE 4
                      len == (IF short THEN b0 ELSE FromLeBytes3(input)) * 4
                  IN  IF Less64(Len64(input), header_len + len)
                      THEN [init |-> self, output |-> output, ret |-> Panic]
                      ELSE [init |-> self,
                            output |-> Cat(output,
                                Slice(input, header_len, header_len + len)),
                            ret |-> Ok(header_len + len)]

\* unpack that still waits when the envelope has just come in whole.
unpack_bound_inclusive(self, input, output) ==
    IF input = <<>>
    THEN [init |-> self, output |-> output, ret |-> MissingBytes]
    ELSE LET b0 == At(input, 0)
             short == b0 < 127
         IN  IF ~short /\ Less64(Len64(input), 4)
             THEN [init |-> self, output |-> output, ret |-> MissingBytes]
             ELSE LET header_len == IF short THEN 1 ELSE 4
                      len == (IF short THEN b0 ELSE FromLeBytes3(input)) * 4
                  IN  IF AsI32(Len64(input)) <= header_len + len
                      THEN [init |-> self, output |-> output,
                            ret |-> MissingBytes]
                      ELSE IF Less64(Len64(input), header_len + len)
                      THEN [init |-> self, output |-> output, ret |-> Panic]
                      ELSE [init |-> self,
                            output |-> Cat(output,
                                Slice(input, header_len, header_len + len)),
                            ret |-> Ok(header_len + len)]

\* unpack that overwrites its sink with the payload.
unpack_clears_output(self, input, output) ==
    IF input = <<>>
    THEN [init |-> self, output |-> output, ret |-> MissingBytes]
    ELSE LET b0 == At(input, 0)
             short == b0 < 127
         IN  IF ~short /\ Less64(Len64(input), 4)
             THEN [init |-> self, output |-> output, ret |-> MissingBytes]
             ELSE LET header_len == IF short THEN 1 ELSE 4
                      len == (IF short THEN b0 ELSE FromLeBytes3(input)) * 4
                  IN  IF AsI32(Len64(input)) < header_len + len
                      THEN [init |-> self, output |-> output,
                            ret |-> MissingBytes]
                      ELSE IF Less64(Len64(input), header_len + len)
                      THEN [init |-> self, output |-> output, ret |-> Panic]
                      ELSE [init |-> self,
                            output |->
                                Slice(input, header_len, header_len + len),
                            ret |-> Ok(header_len + len)]

\* unpack that returns the header and the number of words.
unpack_counts_words(self, input, output) ==
    IF input = <<>>
    THEN [init |-> self, output |-> output, ret |-> MissingBytes]
    ELSE LET b0 == At(input, 0)
             short == b0 < 127
         IN  IF ~short /\ Less64(Len64(input), 4)
             THEN [init |-> self, output |-> output, ret |-> MissingBytes]
             ELSE LET header_len == IF short THEN 1 ELSE 4
                      len == (IF short THEN b0 ELSE FromLeBytes3(input)) * 4
                  IN  IF AsI32(Len64(input)) < header_len + len
                      THEN [init |-> self, output |-> output,
                            ret |-> MissingBytes]
                      ELSE IF Less64(Len64(input), header_len + len)
                      THEN [init |-> self, output |-> output, ret |-> Panic]
                      ELSE [init |-> self,
                            output |-> Cat(output,
                                Slice(input, header_len, header_len + len)),
                            ret |-> Ok(header_len + len \div 4)]

\* Transport::unpack: the value of self.init and of output after the call, and
\* the value returned.  len is an i32: at most (2^24 - 1) * 4, so neither
\* len * 4 nor header_len + len leaves the type.
unpack(self, input, output) ==
    IF input = <<>>
    THEN [init |-> self, output |-> output, ret |-> MissingBytes]
    ELSE LET b0 == At(input, 0)
             short == b0 < 127
         IN  IF ~short /\ Less64(Len64(input), 4)
             THEN [init |-> self, output |-> output, ret |-> MissingBytes]
             ELSE LET header_len == IF short THEN 1 ELSE 4
                      len == (IF short THEN b0 ELSE FromLeBytes3(input)) * 4
                  IN  IF AsI32(Len64(input)) < header_len + len
                      THEN [init |-> self, output |-> output,
                            ret |-> MissingBytes]
                      ELSE IF Less64(Len64(input), header_len + len)
                      THEN [init |-> self, output |-> output, ret |-> Panic]
                      ELSE [init |-> self,
                            output |-> Cat(output,
                                Slice(input, header_len, header_len + len)),
                            ret |-> Ok(header_len + len)]

\* reset that leaves the flag alone.
reset_keeps_init(self) == self

\* Transport::reset
reset(self) == FALSE

-----------------------------------------------------------------------------
(* The inputs the callers draw from. *)

\* A payload of n words: the byte fill[1], then fill[2] up to the end.
Payload(n, fill) ==
    IF n = 0 THEN <<>> ELSE Cat(Run(fill[1], 1), Run(fill[2], 4 * n - 1))

\* Payloads padded to whole words, and payloads that are not.
Padded ==
    { Payload(0, <<0, 0>>), Payload(1, <<127, 239>>), Payload(126, <<0, 0>>),
      Payload(127, <<127, 239>>), Payload(256, <<1, 0>>),
      Payload(16777215, <<239, 127>>), Payload(16777216, <<0, 0>>),
      Payload(16777474, <<1, 2>>) }
NonPadded == { Run(7, 7), Run(7, 510) }

\* A window of 2^32 + 10 bytes that starts with a one-word envelope: its
\* length as an i32 is 10.
Wrapped ==
    Cat(FromSeq(<<1, 9, 9, 9, 9>>),
        Cat(Run(254, 2147483647), Cat(Run(253, 2147483647), Run(252, 7))))

\* Windows that were not produced by pack.
RawInputs ==
    { FromSeq(<<1>>),
      FromSeq(<<127, 1, 0, 0, 9, 9, 9, 9>>),
      FromSeq(<<128>>),
      FromSeq(<<128, 0, 0, 0>>),
      FromSeq(<<255, 1, 0, 0, 9, 9, 9, 9, 1>>),
      FromSeq(<<200, 2, 0, 0, 9, 9, 9, 9>>),
      FromSeq(<<255, 255, 255>>),
      FromSeq(<<127, 255, 255, 255>>),
      Wrapped }

\* Bytes that follow an envelope in the caller's buffer and take the window
\* to 2^31 bytes and more.
Trailing == Run(254, 2147483647)

Packs(l) == SelectSeq(l, LAMBDA e : e.op = "pack")
Resets(l) == SelectSeq(l, LAMBDA e : e.op = "reset")

\* Where in packed the envelope of the i-th logged call starts and ends, the
\* marker left out.
EnvStart(l, i) == IF l[i].marker THEN l[i].at + 1 ELSE l[i].at
EnvEnd(l, i) == l[i].at + BLen(l[i].out)

\* The windows into packed a caller may hand to unpack: from the start of an
\* envelope (the marker stripped, as in packed[1..]) to a cut somewhere behind.
Windows ==
    UNION { { Slice(packed, EnvStart(log, i), t) :
                t \in { c \in { EnvStart(log, i), EnvStart(log, i) + 1,
                                EnvStart(log, i) + 3, EnvStart(log, i) + 4,
                                EnvEnd(log, i) - 1, EnvEnd(log, i),
                                EnvEnd(log, i) + 1, BLen(packed) } :
                         EnvStart(log, i) <= c /\ c <= BLen(packed) } }
              \cup { Cat(Slice(packed, EnvStart(log, i), EnvEnd(log, i)),
                         Trailing) } :
            i \in { j \in DOMAIN log : log[j].op = "pack" } }

-----------------------------------------------------------------------------
(* The callers. *)

Snapshot == [init |-> init, packed |-> packed, unpacked |-> unpacked]

Init ==
    /\ init = new
    /\ packed = <<>>
    /\ unpacked = <<>>
    /\ op = "new"
    /\ arg = <<>>
    /\ ret = Unit
    /\ prev = [init |-> new, packed |-> <<>>, unpacked |-> <<>>]
    /\ log = <<>>
    /\ unpacks = 0
    /\ received = 0
    /\ cursor = 0
    /\ recovered = <<>>

\* transport.pack(&input, &mut packed)
Pack ==
    \E input \in Padded \cup NonPadded :
        LET r == pack(init, input, packed)
        IN  /\ Len(Packs(log)) < MaxPacks
            /\ init' = r.init
            /\ packed' = r.output
            /\ op' = "pack"
            /\ arg' = input
            /\ ret' = r.ret
            /\ prev' = Snapshot
            /\ log' = IF r.ret = Unit
                      THEN Append(log, [op |-> "pack", input |-> input,
                                        at |-> BLen(packed),
                                        out |-> Drop(r.output, BLen(packed)),
                                        marker |-> ~init])
                      ELSE log
            /\ UNCHANGED <<unpacked, unpacks, received, cursor, recovered>>

\* transport.unpack(&input, &mut unpacked)
Unpack ==
    \E input \in Windows \cup RawInputs :
        LET r == unpack(init, input, unpacked)
        IN  /\ unpacks < MaxUnpacks
            /\ init' = r.init
            /\ unpacked' = r.output
            /\ op' = "unpack"
            /\ arg' = input
            /\ ret' = r.ret
            /\ prev' = Snapshot
            /\ unpacks' = IF r.ret.tag = "Ok" THEN unpacks + 1 ELSE unpacks
            /\ UNCHANGED <<packed, log, received, cursor, recovered>>

\* transport.reset()
Reset ==
    /\ Len(Resets(log)) < MaxResets
    /\ init' = reset(init)
    /\ op' = "reset"
    /\ arg' = <<>>
    /\ ret' = Unit
    /\ prev' = Snapshot
    /\ log' = Append(log, [op |-> "reset", input |-> <<>>, at |-> BLen(packed),
                           out |-> <<>>, marker |-> FALSE])
    /\ UNCHANGED <<packed, unpacked, unpacks, received, cursor, recovered>>

Next == Pack \/ Unpack \/ Reset

Spec == Init /\ [][Next]_vars

-----------------------------------------------------------------------------
(* The stream: one writer packing into packed, one reader that keeps what *)
(* it has not consumed, as section 4.1 asks of the caller of unpack.      *)

\* Where a chunk of the stream may end: around the start and the end of each
\* envelope, and at the end of what was written.
Cuts ==
    {1, BLen(packed)} \cup
    UNION { { EnvStart(log, i), EnvStart(log, i) + 1, EnvStart(log, i) + 3,
              EnvStart(log, i) + 4, EnvEnd(log, i) - 1, EnvEnd(log, i) } :
            i \in DOMAIN log }

\* A chunk arrives.
Receive ==
    /\ \E c \in Cuts :
           /\ received < c
           /\ c <= BLen(packed)
           /\ received' = c
    /\ UNCHANGED <<init, packed, unpacked, op, arg, ret, prev, log, unpacks,
                   cursor, recovered>>

\* The reader drops the marker byte that leads the stream.
StripMarker ==
    /\ cursor = 0
    /\ received >= 1
    /\ cursor' = 1
    /\ UNCHANGED <<init, packed, unpacked, op, arg, ret, prev, log, unpacks,
                   received, recovered>>

\* The reader hands unpack all it holds behind its cursor and its sink
\* unpacked; on Ok(n) it moves the cursor by n, on MissingBytes it keeps
\* everything for the next try.  recovered keeps, for each envelope taken,
\* the payload as the same call delivers it into an empty sink.
Read ==
    LET window == Slice(packed, cursor, received)
        r == unpack(init, window, unpacked)
    IN  /\ cursor >= 1
        /\ Len(recovered) <= MaxPacks
        /\ init' = r.init
        /\ unpacked' = r.output
        /\ op' = "unpack"
        /\ arg' = window
        /\ ret' = r.ret
        /\ prev' = Snapshot
        /\ cursor' = IF r.ret.tag = "Ok" THEN cursor + r.ret.val ELSE cursor
        /\ recovered' = IF r.ret.tag = "Ok"
                        THEN Append(recovered,
                                    unpack(init, window, <<>>).output)
                        ELSE recovered
        /\ UNCHANGED <<packed, log, unpacks, received>>

NextStream == Pack \/ Receive \/ StripMarker \/ Read

SpecStream == Init /\ [][NextStream]_vars

-----------------------------------------------------------------------------
(* What the properties below speak of. *)

\* The number of words of a padded payload.
Words(p) == BLen(p) \div 4

\* The envelope of the i-th logged call as it lies in packed.
Envelope(i) == Slice(packed, EnvStart(log, i), EnvEnd(log, i))

\* The header of the wire format for a payload of n words.
WireHeader(n) ==
    IF n < 127 THEN FromSeq(<<n>>)
    ELSE FromSeq(<<127, n % 256, (n \div 256) % 256, n \div 65536>>)

\* The bytes the last unpack call appended to its sink.
Appended == Drop(unpacked, BLen(prev.unpacked))

\* The last call was unpack(&packed[1..]) after exactly one pack on a fresh
\* instance, as in tests::unpack_normal and tests::unpack_large.
RoundTripCase ==
    /\ op = "unpack"
    /\ Len(log) = 1
    /\ log[1].op = "pack"
    /\ arg = Drop(packed, 1)

-----------------------------------------------------------------------------
(* C1: round trip. *)

\* C1 as stated: for any padded payload P, pack on a fresh instance, strip the
\* marker, unpack: the call returns Ok(header length + len(P)), the whole
\* envelope, and appends exactly P.
C1_RoundTripAnyPayload ==
    RoundTripCase =>
        /\ ret = Ok(BLen(packed) - 1)
        /\ unpacked = Cat(prev.unpacked, log[1].input)

\* C1 amended: the same for every padded payload of fewer than 2^24 words.
C1_RoundTrip ==
    (RoundTripCase /\ Words(log[1].input) < 16777216) =>
        /\ ret = Ok(BLen(packed) - 1)
        /\ unpacked = Cat(prev.unpacked, log[1].input)

\* A 1024-byte payload went round: consumed 4 + 1024.
C1_Witness ==
    /\ RoundTripCase
    /\ BLen(log[1].input) = 1024
    /\ ret = Ok(1028)
    /\ Appended = log[1].input

-----------------------------------------------------------------------------
(* C2: the marker is emitted once. *)

\* C2: after n >= 1 pack calls on a fresh instance and no reset, the first
\* call appended 0xEF and then its envelope, every later call appended its
\* envelope only, and packed is these outputs one after the other: one
\* marker, at offset 0.
C2_MarkerOnce ==
    (Len(log) >= 1 /\ Len(Resets(log)) = 0) =>
        /\ At(packed, 0) = 239
        /\ log[1].at = 0
        /\ BLen(log[1].out) =
               1 + BLen(WireHeader(Words(log[1].input))) + BLen(log[1].input)
        /\ Drop(log[1].out, BLen(log[1].out) - BLen(log[1].input))
               = log[1].input
        /\ \A i \in 2..Len(log) :
               /\ log[i].at = EnvEnd(log, i - 1)
               /\ BLen(log[i].out) =
                      BLen(WireHeader(Words(log[i].input))) + BLen(log[i].input)
               /\ Drop(log[i].out, BLen(log[i].out) - BLen(log[i].input))
                      = log[i].input
        /\ BLen(packed) = EnvEnd(log, Len(log))

\* Two packs without a reset, the second of a payload that itself starts
\* with 0xEF.
C2_Witness ==
    /\ Len(log) = 2
    /\ Len(Resets(log)) = 0
    /\ log[2].input # <<>>
    /\ At(log[2].input, 0) = 239

-----------------------------------------------------------------------------
(* C3: reset re-arms the marker. *)

\* C3: init is true exactly when the last completed pack or reset call was a
\* pack; a pack prepends 0xEF exactly when no pack completed since creation
\* or since the last reset; reset on an uninitialized instance changes
\* nothing.
C3_ResetRearms ==
    /\ init <=> (Len(log) >= 1 /\ log[Len(log)].op = "pack")
    /\ \A i \in DOMAIN log :
           log[i].op = "pack" =>
               LET first == i = 1 \/ log[i - 1].op = "reset"
                   plain == BLen(WireHeader(Words(log[i].input)))
                                + BLen(log[i].input)
               IN  /\ first => /\ BLen(log[i].out) = plain + 1
                               /\ At(log[i].out, 0) = 239
                   /\ ~first => BLen(log[i].out) = plain
    /\ (op = "reset" /\ ~prev.init) =>
           /\ init = prev.init
           /\ packed = prev.packed
           /\ unpacked = prev.unpacked

\* pack, reset, pack: the second pack put the marker out again.
C3_Witness ==
    /\ Len(log) = 3
    /\ log[1].op = "pack"
    /\ log[2].op = "reset"
    /\ log[3].op = "pack"
    /\ At(packed, log[3].at) = 239
    /\ init

-----------------------------------------------------------------------------
(* C4: the wire format. *)

\* C4: for a payload of n < 2^24 words the bytes appended after the optional
\* marker are [n] ++ payload when n < 127 and
\* [0x7F, n mod 256, (n div 256) mod 256, n div 65536] ++ payload otherwise;
\* 504 bytes go out under the header byte 126, 508 bytes under 7F 7F 00 00,
\* the empty payload on a fresh instance gives EF 00, 1024 bytes on a fresh
\* instance start EF 7F 00 01 00.
C4_WireFormat ==
    \A i \in DOMAIN log :
        (log[i].op = "pack" /\ Words(log[i].input) < 16777216) =>
            LET env == Drop(log[i].out, IF log[i].marker THEN 1 ELSE 0)
                fresh == i = 1
            IN  /\ env = Cat(WireHeader(Words(log[i].input)), log[i].input)
                /\ env = Envelope(i)
                /\ BLen(log[i].input) = 504 =>
                       /\ At(env, 0) = 126
                       /\ Drop(env, 1) = log[i].input
                /\ BLen(log[i].input) = 508 =>
                       /\ Take(env, 4) = FromSeq(<<127, 127, 0, 0>>)
                       /\ Drop(env, 4) = log[i].input
                /\ (fresh /\ log[i].input = <<>>) =>
                       log[i].out = FromSeq(<<239, 0>>)
                /\ (fresh /\ BLen(log[i].input) = 1024) =>
                       Take(log[i].out, 5) = FromSeq(<<239, 127, 0, 1, 0>>)

\* A 508-byte payload packed on an initialized instance: long form, no
\* marker.
C4_Witness ==
    /\ Len(log) = 2
    /\ log[2].op = "pack"
    /\ ~log[2].marker
    /\ BLen(log[2].input) = 508
    /\ Take(Envelope(2), 4) = FromSeq(<<127, 127, 0, 0>>)

-----------------------------------------------------------------------------
(* C5: a partial envelope is not consumed. *)

\* a is a strict prefix of the buffer e (e shorter than 2^31 bytes).
StrictPrefix(a, e) ==
    /\ Less64(Len64(a), BLen(e))
    /\ Take(e, BLen(a)) = a

\* a starts with the whole of e.
StartsWith(a, e) ==
    /\ ~Less64(Len64(a), BLen(e))
    /\ Take(a, BLen(e)) = e

\* a is shorter than 2^31 bytes.
Below2G(a) == Len64(a)[1] < 32768

PackedAt == { i \in DOMAIN log : log[i].op = "pack" }

\* C5 as stated: unpack on a strict prefix of any envelope pack produced
\* returns MissingBytes and appends nothing.
C5_PrefixOfAnyEnvelope ==
    \A i \in PackedAt :
        (op = "unpack" /\ StrictPrefix(arg, Envelope(i))) =>
            /\ ret = MissingBytes
            /\ unpacked = prev.unpacked

\* C5 amended: the same for the envelopes of payloads of fewer than 2^24
\* words.
C5_PartialInput ==
    \A i \in PackedAt :
        (/\ op = "unpack"
         /\ Words(log[i].input) < 16777216
         /\ StrictPrefix(arg, Envelope(i))) =>
            /\ ret = MissingBytes
            /\ unpacked = prev.unpacked

\* unpack was handed a long-form envelope less its last byte: the header is
\* whole, the payload is cut.
C5_Witness ==
    /\ op = "unpack"
    /\ ret = MissingBytes
    /\ \E i \in PackedAt :
           /\ BLen(log[i].input) = 508
           /\ arg = Take(Envelope(i), 511)

-----------------------------------------------------------------------------
(* C6: back-to-back envelopes. *)

-----------------------------------------------------------------------------
(* C7: pack of a payload that is not padded. *)

\* C7: pack of a payload whose length is not a multiple of 4 panics, with no
\* byte appended and init as it was.
C7_NonPaddedPanics ==
    (op = "pack" /\ BLen(arg) % 4 # 0) =>
        /\ ret = Panic
        /\ packed = prev.packed
        /\ init = prev.init
        /\ unpacked = prev.unpacked
        /\ (Len(log) = 0 => ~init /\ packed = <<>>)

\* The 7 bytes of tests::pack_non_padded on a fresh instance.
C7_Witness ==
    /\ op = "pack"
    /\ BLen(arg) = 7
    /\ ret = Panic
    /\ Len(log) = 0
    /\ ~init

-----------------------------------------------------------------------------
(* C8: unpack neither reads nor writes init. *)

\* C8: an unpack call leaves init as it was, and returns and appends what
\* the same call returns and appends with init the other way round and with
\* init as on a new instance.
C8_UnpackIgnoresInit ==
    op = "unpack" =>
        /\ init = prev.init
        /\ \A self \in BOOLEAN :
               LET r == unpack(self, arg, prev.unpacked)
               IN  /\ r.ret = ret
                   /\ r.output = unpacked
                   /\ r.init = self

\* unpack decoded an envelope on an initialized transport.
C8_Witness ==
    /\ op = "unpack"
    /\ prev.init
    /\ ret.tag = "Ok"
    /\ Appended # <<>>

-----------------------------------------------------------------------------
(* C10: the header discriminant of unpack. *)

\* The window was decoded under a 1-byte header holding the word count.
DecodedShort ==
    /\ ret = Ok(1 + 4 * At(arg, 0))
    /\ Appended = Slice(arg, 1, ret.val)

\* The window was decoded under a 4-byte header, the word count in
\* arg[1..4], least significant byte first.
DecodedLong ==
    /\ ~Less64(Len64(arg), 4)
    /\ ret = Ok(4 + 4 * (At(arg, 1) + 256 * At(arg, 2) + 65536 * At(arg, 3)))
    /\ Appended = Slice(arg, 4, ret.val)

\* C10 as stated: a window starting with a byte below 127 is decoded short,
\* and the long form is taken when and only when the first byte is 127.
C10_LongOnlyAt127 ==
    (op = "unpack" /\ ret.tag = "Ok") =>
        /\ At(arg, 0) < 127 => DecodedShort
        /\ DecodedLong <=> At(arg, 0) = 127

\* C10 amended: a window starting with a byte below 127 is decoded short,
\* and the long form is taken when and only when the first byte is 127 or
\* more (127..255).
C10_Discriminant ==
    (op = "unpack" /\ ret.tag = "Ok") =>
        /\ At(arg, 0) < 127 => DecodedShort /\ ~DecodedLong
        /\ At(arg, 0) >= 127 => DecodedLong /\ ~DecodedShort

\* A window starting with 255 was decoded under the long header.
C10_Witness ==
    /\ op = "unpack"
    /\ ret = Ok(8)
    /\ At(arg, 0) = 255
    /\ Appended = FromSeq(<<9, 9, 9, 9>>)

-----------------------------------------------------------------------------
(* C9: the stream keeps its order.  Checked under SpecStream. *)

\* Everything written has arrived and unpack finds no whole envelope behind
\* the cursor: the reader is through.
ReaderDone ==
    /\ Len(log) >= 1
    /\ received = BLen(packed)
    /\ cursor >= 1
    /\ unpack(init, Slice(packed, cursor, received), <<>>).ret = MissingBytes

\* The reader has the first payloads submitted, one entry each, in the order
\* of submission, its cursor at the end of the last envelope it took, and
\* once it is through it has them all and its cursor is at the end.
InOrder ==
    /\ Len(recovered) <= Len(log)
    /\ \A i \in DOMAIN recovered :
           i <= Len(log) => recovered[i] = log[i].input
    /\ cursor <= received
    /\ (Len(recovered) >= 1 /\ Len(recovered) <= Len(log)) =>
           cursor = EnvEnd(log, Len(recovered))
    /\ ReaderDone =>
           /\ recovered = [i \in DOMAIN log |-> log[i].input]
           /\ cursor = BLen(packed)

-----------------------------------------------------------------------------
(* C11: MissingBytes is the only failure of unpack. *)

\* C11: whatever the window (first byte 0..255, any length, produced by pack
\* or not), unpack returns Ok(n) or Err(MissingBytes); it never panics on a
\* slice out of range.
C11_OnlyMissingBytes ==
    op = "unpack" =>
        /\ ret # Panic
        /\ ret.tag \in {"Ok", "Err"}
        /\ ret.tag = "Err" => ret = MissingBytes
        /\ ret.tag = "Ok" => ret.val \in Nat

\* unpack was handed three bytes starting with 255, not a thing pack
\* writes, and asked for more.
C11_Witness ==
    /\ op = "unpack"
    /\ arg = FromSeq(<<255, 255, 255>>)
    /\ ret = MissingBytes

-----------------------------------------------------------------------------
(* C12: MissingBytes is recoverable. *)

\* The length of the envelope a window shorter than 2^31 bytes begins, a cut
\* header taken as filled up with zeros.
Needed(a) ==
    IF a = <<>> THEN 1
    ELSE IF At(a, 0) < 127 THEN 1 + 4 * At(a, 0)
    ELSE LET h == IF BLen(a) < 4 THEN Cat(a, Run(0, 4 - BLen(a))) ELSE a
         IN  4 + 4 * (At(h, 1) + 256 * At(h, 2) + 65536 * At(h, 3))

\* Bytes that make a window unpack waits on into one it decodes: what the
\* envelope lacks, or, for a window of 2^31 bytes and more, what takes its
\* length as an i32 back up to the envelope.
Completion(a) ==
    IF Below2G(a) THEN Run(0, Needed(a) - BLen(a))
    ELSE LET far == Cat(a, Run(253, 2147483647))
             lack == Needed(Take(a, 4)) - AsI32(Len64(far))
         IN  Cat(Run(253, 2147483647), Run(252, IF lack > 0 THEN lack ELSE 0))

\* Bytes that may follow a window.
Extensions ==
    { FromSeq(<<0>>), FromSeq(<<127, 1>>), FromSeq(<<1, 9, 9, 9, 9>>),
      Run(251, 2147483647) }

\* The last call was unpack and returned MissingBytes: there are bytes
\* after which the same window is decoded.
Recoverable ==
    (op = "unpack" /\ ret = MissingBytes) =>
        unpack(prev.init, Cat(arg, Completion(arg)), prev.unpacked).ret.tag
            = "Ok"

\* The last call was unpack and returned Ok: with t behind the window it
\* returns and appends the same.
Stable(t) ==
    (op = "unpack" /\ ret.tag = "Ok") =>
        unpack(prev.init, Cat(arg, t), prev.unpacked)
            = [init |-> init, output |-> unpacked, ret |-> ret]

-----------------------------------------------------------------------------
(* C13: the sinks are appended to, nothing else.  Checked under SpecStream. *)

\* The sink b starts with all of the sink a.
Extends(b, a) ==
    /\ BLen(a) <= BLen(b)
    /\ Take(b, BLen(a)) = a

\* The buffers of ps one after the other.
RECURSIVE ConcatAll(_)
ConcatAll(ps) ==
    IF ps = <<>> THEN <<>> ELSE Cat(Head(ps), ConcatAll(Tail(ps)))

\* C13: a pack call keeps what packed held and appends behind it; an unpack
\* call keeps what unpacked held and appends behind it, nothing on
\* MissingBytes; neither touches the other sink; after k unpack calls that
\* returned Ok, unpacked is the k decoded payloads in call order.
C13_AppendOnly ==
    /\ op = "pack" =>
           /\ Extends(packed, prev.packed)
           /\ unpacked = prev.unpacked
           /\ ret = Panic => packed = prev.packed
    /\ op = "unpack" =>
           /\ Extends(unpacked, prev.unpacked)
           /\ packed = prev.packed
           /\ ret = MissingBytes => unpacked = prev.unpacked
    /\ unpacked = ConcatAll(recovered)

\* The second of two payloads has just been decoded into the sink that held
\* the first.
C13_Witness ==
    /\ op = "unpack"
    /\ ret.tag = "Ok"
    /\ Len(recovered) = 2
    /\ recovered[1] # <<>>
    /\ recovered[2] # <<>>
    /\ prev.unpacked = recovered[1]
    /\ unpacked = Cat(recovered[1], recovered[2])

-----------------------------------------------------------------------------
(* C14: the length field is not guarded. *)

\* C14: pack of a padded payload of n >= 2^24 words returns; it appends,
\* after the optional marker, 0x7F, the three low bytes of n (n mod 2^24,
\* least significant first) and the whole payload, so that the length field
\* differs from the number of words that follow.
C14_LengthWraps ==
    /\ (op = "pack" /\ BLen(arg) % 4 = 0 /\ Words(arg) >= 16777216) =>
           /\ ret = Unit
           /\ Len(log) >= 1
           /\ log[Len(log)].input = arg
           /\ EnvEnd(log, Len(log)) = BLen(packed)
    /\ \A i \in PackedAt :
           Words(log[i].input) >= 16777216 =>
               LET n == Words(log[i].input)
                   field == At(Envelope(i), 1) + 256 * At(Envelope(i), 2)
                                + 65536 * At(Envelope(i), 3)
               IN  /\ Envelope(i) = Drop(log[i].out, IF log[i].marker THEN 1 ELSE 0)
                   /\ At(Envelope(i), 0) = 127
                   /\ field = n % 16777216
                   /\ field # n
                   /\ Drop(Envelope(i), 4) = log[i].input
                   /\ BLen(Envelope(i)) = 4 + 4 * n

\* 2^24 + 258 words were packed under the length bytes 02 01 00.
C14_Witness ==
    /\ op = "pack"
    /\ ret = Unit
    /\ Words(arg) = 16777474
    /\ Take(Envelope(Len(log)), 4) = FromSeq(<<127, 2, 1, 0>>)
    /\ Drop(Envelope(Len(log)), 4) = arg

-----------------------------------------------------------------------------
(* C15: the bytes consumed. *)

\* The header the window of the last call begins with: its length and the
\* word count it holds.
HeaderLen == IF At(arg, 0) < 127 THEN 1 ELSE 4
WordCount ==
    IF At(arg, 0) < 127 THEN At(arg, 0)
    ELSE At(arg, 1) + 256 * At(arg, 2) + 65536 * At(arg, 3)

\* C15: when unpack returns Ok(n), n = headerLen + 4 * wordCount with
\* headerLen 1 or 4, 1 <= n <= len(input), and the sink has grown by the
\* n - headerLen bytes input[headerLen .. n].
C15_ConsumedBounds ==
    (op = "unpack" /\ ret.tag = "Ok") =>
        /\ HeaderLen \in {1, 4}
        /\ ret.val = HeaderLen + 4 * WordCount
        /\ 1 <= ret.val
        /\ ~Less64(Len64(arg), ret.val)
        /\ BLen(unpacked) = BLen(prev.unpacked) + ret.val - HeaderLen
        /\ Take(unpacked, BLen(prev.unpacked)) = prev.unpacked
        /\ Appended = Slice(arg, HeaderLen, ret.val)

\* unpack took a long-form envelope off a window that holds more.
C15_Witness ==
    /\ op = "unpack"
    /\ ret.tag = "Ok"
    /\ HeaderLen = 4
    /\ WordCount = 127
    /\ ret.val = 512
    /\ ~Less64(Len64(arg), 513)
    /\ BLen(Appended) = 508

-----------------------------------------------------------------------------
(* C16: the i32 arithmetic of unpack. *)

\* The window of the last call holds a whole header.
HasHeader ==
    /\ arg # <<>>
    /\ At(arg, 0) < 127 \/ ~Less64(Len64(arg), 4)

\* The word count as unpack reads it off the window.
ReadCount == IF At(arg, 0) < 127 THEN At(arg, 0) ELSE FromLeBytes3(arg)

\* C16: whatever the header, the word count read is in 0 .. 2^24 - 1, the
\* byte length at most 67108860 and header length + byte length within the
\* i32; for a window shorter than 2^31 bytes len() as i32 is len(), and
\* unpack returns MissingBytes exactly when len() < header length + byte
\* length.
C16_NoOverflow ==
    (op = "unpack" /\ HasHeader) =>
        /\ ReadCount \in 0..16777215
        /\ ReadCount * 4 <= 67108860
        /\ HeaderLen + ReadCount * 4 >= 1
        /\ HeaderLen + ReadCount * 4 <= 2147483647
        /\ Below2G(arg) =>
               /\ AsI32(Len64(arg)) = BLen(arg)
               /\ ret = MissingBytes <=>
                      BLen(arg) < HeaderLen + ReadCount * 4

\* unpack read the largest word count a header can hold and asked for
\* more.
C16_Witness ==
    /\ op = "unpack"
    /\ arg = FromSeq(<<127, 255, 255, 255>>)
    /\ ReadCount = 16777215
    /\ ret = MissingBytes

====
